---- MODULE Spec2Model ----
(***************************************************************************)
(* A model of girogi-ai: the corpus synchronizer of init_store.py          *)
(* (metadata merge, store bootstrap, delta upload, upload tracker) and the *)
(* grounded query engine of app.py (bounded chat context).                 *)
(*                                                                         *)
(* Strings are sequences of one-character strings, so that file names,     *)
(* stems and keys are computed as the code computes them.                  *)
(***************************************************************************)
EXTENDS Integers, Sequences, FiniteSets, TLC

\* ------------------------------------------------------------------ bounds
\* number of synchronizer runs (init_store.main) of one behaviour
MaxRuns == 2
\* number of changes made to the document directory between runs
MaxEdits == 1
\* longest chat history handed to search_and_answer
MaxHist == 7
\* most grounding chunks of one response
MaxChunks == 6
\* longest transcript of a chat session
MaxMsgs == 10
\* most script runs of a chat session that are stopped half-way
MaxCuts == 2
\* most pieces a raw citation title is put together from
MaxParts == 4
\* most pieces of a key of the metadata mapping the interface holds
MaxKeyParts == 2

\* --------------------------------------------------------------- constants
\* app.py line 84: chat_history[-6:]
HISTORY_WINDOW == 6
\* init_store.py line 275: 10 * 1024 * 1024 bytes, counted here in MiB
MAX_FILE_MIB == 10
\* app.py line 149: citations[:5]
MAX_CITATIONS == 5
\* init_store.py line 178: file_path.stem[:100]
DISPLAY_NAME_MAX == 100
\* app.py line 146: ctx.get('text', '')[:150]
CITATION_TEXT_MAX == 150

\* ----------------------------------------------------------------- strings
MD_SUFFIX == <<".", "m", "d">>

\* the file names data/ may hold (all match the glob "*.md")
DocNames == { <<"a">> \o MD_SUFFIX, <<"b">> \o MD_SUFFIX }

Range(s) == { s[i] : i \in 1..Len(s) }

LastDot(s) ==
  LET D == { i \in 1..Len(s) : s[i] = "." }
  IN  IF D = {} THEN 0 ELSE CHOOSE i \in D : \A j \in D : j <= i

\* pathlib's PurePath.stem: the name without its last suffix
Stem(name) ==
  LET i == LastDot(name)
  IN  IF i > 1 /\ i < Len(name) THEN SubSeq(name, 1, i - 1) ELSE name

\* -------------------------------------------------------------- documents
\* What the header block of a document looks like:
\*   none    no leading "---" block (the regular expression does not match)
\*   badyaml a block yaml.safe_load raises on
\*   empty   a block that loads as None
\*   scalar  a block that loads as a non-mapping value (a plain string)
\*   full    a mapping with title, source and a string author
\*   list    a mapping whose author is a non-empty list, no title, no source
\*   nolist  a mapping whose author is the empty list
\*   date    a mapping whose title loads as a datetime.date (title: 2024-01-01)
HeaderKinds == {"none", "badyaml", "empty", "scalar", "full", "list", "nolist", "date"}

\* sizes in MiB: below the ceiling, exactly at it, above it
DocSizes == {1, MAX_FILE_MIB, MAX_FILE_MIB + 1}

Doc == [hdr : HeaderKinds, size : DocSizes]
NoDoc == [hdr |-> "absent", size |-> 0]

\* a Python value of the kinds the frontmatter fields take
StrVal(s) == [t |-> "str", v |-> s]
DateVal(s) == [t |-> "date", v |-> s]
ListVal(l) == [t |-> "list", v |-> l]

TITLE_1 == <<"T">>
SOURCE_1 == <<"h", ":", "/", "/", "u">>
AUTHOR_1 == <<"K", "i", "m">>
AUTHOR_2 == <<"L", "e", "e">>
DATE_1 == <<"2", "0", "2", "4">>
\* init_store.py line 118: the default organisation name
DEFAULT_AUTHOR == <<"o", "r", "g">>

EmptyDict == [k \in {} |-> StrVal(<< >>)]

\* yaml.safe_load on the header block of a document of this kind
YamlLoad(hdr) ==
  CASE hdr = "empty"  -> [raised |-> FALSE, truthy |-> FALSE, isdict |-> FALSE, d |-> EmptyDict]
    [] hdr = "badyaml" -> [raised |-> TRUE, truthy |-> FALSE, isdict |-> FALSE, d |-> EmptyDict]
    [] hdr = "scalar" -> [raised |-> FALSE, truthy |-> TRUE, isdict |-> FALSE, d |-> EmptyDict]
    [] hdr = "full"   -> [raised |-> FALSE, truthy |-> TRUE, isdict |-> TRUE,
                          d |-> [k \in {"title", "source", "author"} |->
                                   IF k = "title" THEN StrVal(TITLE_1)
                                   ELSE IF k = "source" THEN StrVal(SOURCE_1)
                                   ELSE StrVal(AUTHOR_1)]]
    [] hdr = "list"   -> [raised |-> FALSE, truthy |-> TRUE, isdict |-> TRUE,
                          d |-> [k \in {"author"} |-> ListVal(<<AUTHOR_2, AUTHOR_1>>)]]
    [] hdr = "nolist" -> [raised |-> FALSE, truthy |-> TRUE, isdict |-> TRUE,
                          d |-> [k \in {"author"} |-> ListVal(<< >>)]]
    [] hdr = "date"   -> [raised |-> FALSE, truthy |-> TRUE, isdict |-> TRUE,
                          d |-> [k \in {"title"} |-> DateVal(DATE_1)]]
    [] OTHER          -> [raised |-> FALSE, truthy |-> FALSE, isdict |-> FALSE, d |-> EmptyDict]

\* parse_frontmatter: what it returns for a document; isdict tells whether the
\* value is a mapping (a truthy non-mapping is returned as it is)
parse_frontmatter(doc) ==
  IF doc.hdr = "none" THEN [isdict |-> TRUE, d |-> EmptyDict]
  ELSE LET y == YamlLoad(doc.hdr)
       IN  IF y.raised THEN [isdict |-> TRUE, d |-> EmptyDict]
           ELSE IF y.truthy THEN [isdict |-> y.isdict, d |-> y.d]
           ELSE [isdict |-> TRUE, d |-> EmptyDict]

\* dict.get(key, default)
Get(d, k, default) == IF k \in DOMAIN d THEN d[k] ELSE default

\* lines 116-118: the author field, a list or a single value
AuthorOf(frontmatter) ==
  LET author == Get(frontmatter, "author", ListVal(<< >>))
  IN  IF author.t = "list"
      THEN IF Len(author.v) > 0 THEN StrVal(author.v[1]) ELSE StrVal(DEFAULT_AUTHOR)
      ELSE author

\* lines 120-124: the record generate_metadata stores under key
MetadataRecord(key, frontmatter) ==
  [title  |-> Get(frontmatter, "title", StrVal(key)),
   url    |-> Get(frontmatter, "source", StrVal(<< >>)),
   author |-> AuthorOf(frontmatter)]

EmptyMapping == [k \in {} |-> MetadataRecord(<< >>, EmptyDict)]

MdFiles(dir) == { n \in DocNames : dir[n] # NoDoc }

\* ----------------------------------------------------- article_metadata.json
\* st: "absent", "ok" (holds the JSON of map) or "corrupt" (not valid JSON)
AbsentMeta == [st |-> "absent", map |-> EmptyMapping]
CorruptMeta == [st |-> "corrupt", map |-> EmptyMapping]

\* load_existing_metadata: readOk is whether open and json.load succeed on a
\* file holding valid JSON (any exception is caught and gives {})
load_existing_metadata(file, readOk) ==
  IF file.st = "ok" /\ readOk THEN file.map ELSE EmptyMapping

DocOfKey(dir, key) == dir[CHOOSE n \in MdFiles(dir) : Stem(n) = key]

\* generate_metadata: the merged mapping, or raised when a new document's
\* frontmatter is no mapping (frontmatter.get fails outside any try)
generate_metadata(existing, dirExists, dir) ==
  IF ~dirExists THEN [raised |-> FALSE, metadata |-> existing]
  ELSE LET new == { n \in MdFiles(dir) : Stem(n) \notin DOMAIN existing }
           newKeys == { Stem(n) : n \in new }
       IN  IF \E n \in new : ~parse_frontmatter(dir[n]).isdict
           THEN [raised |-> TRUE, metadata |-> existing]
           ELSE [raised |-> FALSE,
                 metadata |-> [k \in DOMAIN existing \cup newKeys |->
                                 IF k \in DOMAIN existing THEN existing[k]
                                 ELSE MetadataRecord(k, parse_frontmatter(DocOfKey(dir, k)).d)]]

\* json.dump accepts strings and lists, not a datetime.date
JsonSerializable(metadata) ==
  \A k \in DOMAIN metadata :
    /\ metadata[k].title.t # "date"
    /\ metadata[k].url.t # "date"
    /\ metadata[k].author.t # "date"

\* a save_metadata that opens the file for appending: a second document lands
\* behind the first and the file is no longer valid JSON
save_metadata_Append(file, metadata) ==
  IF JsonSerializable(metadata) /\ file.st = "absent"
  THEN [raised |-> FALSE, file |-> [st |-> "ok", map |-> metadata]]
  ELSE [raised |-> ~JsonSerializable(metadata), file |-> CorruptMeta]

\* save_metadata: open(..., 'w') truncates the old file, json.dump writes piece
\* by piece; a value it cannot encode leaves a cut-off file behind and raises
save_metadata(file, metadata) ==
  IF JsonSerializable(metadata)
  THEN [raised |-> FALSE, file |-> [st |-> "ok", map |-> metadata]]
  ELSE [raised |-> TRUE, file |-> CorruptMeta]

\* ------------------------------------------------------- .uploaded_files.json
AbsentTracker == [exists |-> FALSE, files |-> {}]

\* a load that forgets the file and starts from the empty set
load_uploaded_files_Empty(file) == {}

\* load_uploaded_files: set(json.load(f)), or set() when the file is absent
load_uploaded_files(file) == IF file.exists THEN file.files ELSE {}

\* a save that writes the empty list whatever it is given
save_uploaded_files_Empty(files) == [exists |-> TRUE, files |-> {}]

\* save_uploaded_files: json.dump(list(files)); the list keeps no duplicates
\* and its order carries no information
save_uploaded_files(files) == [exists |-> TRUE, files |-> files]

\* ---------------------------------------------------------- store_config.json
AbsentConfig == [exists |-> FALSE, corpus_name |-> 0, store_name |-> "", created_at |-> 0]

\* save_config: corpus_name is the store identifier, created_at the clock
save_config(sid, store_name, now) ==
  [exists |-> TRUE, corpus_name |-> sid, store_name |-> store_name, created_at |-> now]

\* ------------------------------------------------------------ remote service
\* main line 233
STORE_NAME == "girogi-ai-archive"
\* a store of another project, present in the account from the start
OtherStore == [name |-> 1, displayName |-> "other-archive"]

\* responses of GET /fileSearchStores: 200, another status, or no response
\* (requests.get raises)
ListResponses == {"200", "non200", "raise"}
\* responses of POST /fileSearchStores
CreateResponses == {"200", "non200"}
\* status codes of the upload request; 0 stands for an exception inside upload_file
UploadResponses == {200, 202, 500, 0}

\* list_stores: the stores of a 200 response, [] for any other status
list_stores(resp, stores) == IF resp = "200" THEN stores ELSE << >>

\* a lookup that takes the first listed store whatever its display name
ExistingMap_First(existing_stores, dn) == existing_stores[1].name

\* main line 237: the dict comprehension keeps the last store of each name
InExistingMap(existing_stores, dn) ==
  \E i \in 1..Len(existing_stores) : existing_stores[i].displayName = dn

ExistingMap(existing_stores, dn) ==
  LET I == { i \in 1..Len(existing_stores) : existing_stores[i].displayName = dn }
  IN  existing_stores[CHOOSE i \in I : \A j \in I : j <= i].name

\* POST /upload/{store}:uploadToFileSearchStore answers 200 or 202 when the
\* service has taken the file
ServiceAccepted(status) == status \in {200, 202}

\* an upload_file that takes every answer of the service for a success
UploadOk_AnyStatus(status) == status # 0

\* upload_file line 188 (an exception inside upload_file returns False)
UploadOk(status) == status \in {200, 202}

\* a size check that lets every file through
Oversized_Never(doc) == FALSE

\* main line 275
Oversized(doc) == doc.size > MAX_FILE_MIB

\* a delta that looks the stem up in the tracked file names
NewFileSet_ByStem(md_files, uploaded_files) ==
  { f \in md_files : Stem(f) \notin uploaded_files }

\* main line 261
NewFileSet(md_files, uploaded_files) == { f \in md_files : f \notin uploaded_files }

\* the orders in which glob may list a set of files
Orders(S) == { s \in [1..Cardinality(S) -> S] : Range(s) = S }

\* ------------------------------------------------------ grounded query engine
\* a slice that keeps the first n messages instead of the last n
LastN_First(s, n) == IF Len(s) <= n THEN s ELSE SubSeq(s, 1, n)

\* Python's s[-n:]
LastN(s, n) == IF Len(s) <= n THEN s ELSE SubSeq(s, Len(s) - n + 1, Len(s))

\* search_and_answer line 85
ContentRole(role) == IF role = "user" THEN "user" ELSE "model"

Turn(role, text) == [role |-> role, parts |-> <<[text |-> text]>>]

\* search_and_answer lines 79-95: the contents of the request
BuildContents(history, q) ==
  LET recent == LastN(history, HISTORY_WINDOW)
      prior == IF Len(history) > 0
               THEN [i \in 1..Len(recent) |-> Turn(ContentRole(recent[i].role), recent[i].content)]
               ELSE << >>
  IN  prior \o <<Turn("user", q)>>

\* the chat messages and queries search_and_answer is called with
Messages == [role : {"user", "assistant"}, content : {"x", "y"}]
Histories == UNION { [1..n -> Messages] : n \in 0..MaxHist }
Queries == {"q", "x"}

\* ------------------------------------------- the response of the endpoint
\* Python's s[:n]
FirstN(s, n) == IF Len(s) <= n THEN s ELSE SubSeq(s, 1, n)

\* A grounding chunk: ctx tells what its 'retrievedContext' is ("absent": the
\* key is missing, "dict": a mapping, "str": a value without .get), has_title
\* whether the mapping has a 'title'
NoContextChunk == [ctx |-> "absent", has_title |-> FALSE, title |-> "", text |-> << >>]
UntitledChunk == [ctx |-> "dict", has_title |-> FALSE, title |-> "", text |-> <<"s">>]
ChunkTitles == {"t1", "t2", "t3", "t4", "t5"}
TitledChunk(t) == [ctx |-> "dict", has_title |-> TRUE, title |-> t, text |-> <<"s">>]
BrokenChunk == [ctx |-> "str", has_title |-> FALSE, title |-> "", text |-> << >>]

ContextChunks == {UntitledChunk} \cup { TitledChunk(t) : t \in ChunkTitles }
WellFormedChunks == {NoContextChunk} \cup ContextChunks
\* the chunk lists of a response: up to MaxChunks chunks that carry a context
\* (six distinct titles at most), shorter lists that mix in chunks without
\* one, and lists of one or two chunks with a malformed one among them
ChunkSeqs ==
  UNION { [1..n -> ContextChunks] : n \in 0..MaxChunks }
    \cup UNION { [1..n -> WellFormedChunks] : n \in 1..(MaxChunks - 2) }
    \cup UNION { [1..n -> WellFormedChunks \cup {BrokenChunk}] : n \in 1..2 }

\* What requests.post and response.json() give:
\*   timeout  requests.exceptions.Timeout is raised
\*   error    another exception is raised (no connection)
\*   status   a response whose status code is not 200
\*   badjson  200, the body is no JSON (response.json() raises)
\*   null     200, the body is the JSON null ('candidates' in None raises)
\*   nocand   200, a mapping without 'candidates'
\*   ok       200, one candidate with an answer text and grounding chunks
StatusCodes == {"429", "500"}
ANSWER_TEXT == <<"ans">>
Response(kind, code, chunks) == [kind |-> kind, code |-> code, chunks |-> chunks]
Responses ==
  { Response(k, "", << >>) : k \in {"timeout", "error", "badjson", "null", "nocand"} }
    \cup { Response("status", c, << >>) : c \in StatusCodes }
    \cup { Response("ok", "200", cs) : cs \in ChunkSeqs }

\* app.py line 152 and lines 117, 154: the strings search_and_answer returns on
\* a failure, cut into the fixed text and the inserted value
TIMEOUT_MESSAGE == <<"timeout-apology">>
StatusMessage(code) == <<"api-error: ", code>>
ErrorMessage(e) == <<"error: ", e>>

\* lines 141-147: the citation of a chunk
Citation(chunk) ==
  [title |-> IF chunk.has_title THEN chunk.title ELSE "Unknown",
   text  |-> FirstN(chunk.text, CITATION_TEXT_MAX)]

\* lines 137-147: the loop over groundingChunks from chunk i on, with the
\* titles seen and the citations collected so far
RECURSIVE CollectCitations(_, _, _, _)
CollectCitations(chunks, i, seen_titles, citations) ==
  IF i > Len(chunks) THEN [raised |-> FALSE, citations |-> citations]
  ELSE LET chunk == chunks[i]
       IN  IF chunk.ctx = "absent"
           THEN CollectCitations(chunks, i + 1, seen_titles, citations)
           ELSE IF chunk.ctx = "str"
           THEN [raised |-> TRUE, citations |-> citations]
           ELSE IF Citation(chunk).title \in seen_titles
           THEN CollectCitations(chunks, i + 1, seen_titles, citations)
           ELSE CollectCitations(chunks, i + 1, seen_titles \cup {Citation(chunk).title},
                                 Append(citations, Citation(chunk)))

\* a return that hands back every citation collected
CapCitations_None(citations) == citations

\* line 149: citations[:5]
CapCitations(citations) == FirstN(citations, MAX_CITATIONS)

\* what lines 114-149 do inside the try: exc is the exception raised ("none"
\* when the block returns)
TryBody(resp) ==
  CASE resp.kind = "timeout" -> [exc |-> "Timeout", answer |-> << >>, citations |-> << >>]
    [] resp.kind = "error"   -> [exc |-> "ConnectionError", answer |-> << >>, citations |-> << >>]
    [] resp.kind = "status"  -> [exc |-> "none", answer |-> StatusMessage(resp.code), citations |-> << >>]
    [] resp.kind = "badjson" -> [exc |-> "ValueError", answer |-> << >>, citations |-> << >>]
    [] resp.kind = "null"    -> [exc |-> "TypeError", answer |-> << >>, citations |-> << >>]
    [] resp.kind = "nocand"  -> [exc |-> "none", answer |-> << >>, citations |-> << >>]
    [] OTHER ->
         LET c == CollectCitations(resp.chunks, 1, {}, << >>)
         IN  IF c.raised
             THEN [exc |-> "AttributeError", answer |-> << >>, citations |-> << >>]
             ELSE [exc |-> "none", answer |-> ANSWER_TEXT, citations |-> CapCitations(c.citations)]

\* handlers that catch the timeout alone
Caught_TimeoutOnly(exc) == exc = "Timeout"

\* lines 151-154: except Timeout, except Exception
Caught(exc) == exc \in {"Timeout", "ConnectionError", "ValueError", "TypeError", "AttributeError"}

\* search_and_answer lines 113-154: the pair it returns, or raised when the
\* exception passes the handlers
search_and_answer(resp) ==
  LET b == TryBody(resp)
  IN  IF b.exc = "none"
      THEN [raised |-> FALSE, answer |-> b.answer, citations |-> b.citations]
      ELSE IF ~Caught(b.exc)
      THEN [raised |-> TRUE, answer |-> << >>, citations |-> << >>]
      ELSE IF b.exc = "Timeout"
      THEN [raised |-> FALSE, answer |-> TIMEOUT_MESSAGE, citations |-> << >>]
      ELSE [raised |-> FALSE, answer |-> ErrorMessage(b.exc), citations |-> << >>]

\* ------------------------------------------------------- citation resolution
\* Python's s.replace(old, ''), from position i on: occurrences are taken from
\* left to right and do not overlap.  The text up to the next occurrence is
\* kept, the occurrence dropped, and the rest treated the same way.
RECURSIVE RemoveAll(_, _, _)
RemoveAll(s, old, i) ==
  LET M == { p \in i..(Len(s) - Len(old) + 1) : SubSeq(s, p, p + Len(old) - 1) = old }
  IN  IF M = {} THEN SubSeq(s, i, Len(s))
      ELSE LET p == CHOOSE m \in M : \A q \in M : m <= q
           IN  SubSeq(s, i, p - 1) \o RemoveAll(s, old, p + Len(old))

\* Python's None
NoneVal == [t |-> "none", v |-> << >>]

\* get_article_info lines 219-226
get_article_info(filename, metadata) ==
  LET key == RemoveAll(filename, MD_SUFFIX, 1)
  IN  IF key \in DOMAIN metadata THEN metadata[key]
      ELSE [title |-> StrVal(filename), url |-> NoneVal]

\* the pieces raw titles and keys are put together from
TitlePieces == { <<"a">>, <<".">>, <<"m", "d">>, MD_SUFFIX }

RECURSIVE Flatten(_)
Flatten(ps) == IF ps = << >> THEN << >> ELSE Head(ps) \o Flatten(Tail(ps))

StringsOf(n) == { Flatten(ps) : ps \in UNION { [1..k -> TitlePieces] : k \in 0..n } }

\* the titles a citation may carry
RawTitles == StringsOf(MaxParts)
\* the mappings load_article_metadata may have put in the session: empty, or
\* one record as generate_metadata writes it for a document without header
ArticleMetadatas ==
  {EmptyMapping} \cup { [k \in {key} |-> MetadataRecord(key, EmptyDict)] : key \in StringsOf(MaxKeyParts) }

NoInfo == [title |-> StrVal(<< >>), url |-> NoneVal, pending |-> TRUE]

NoResponse == Response("none", "", << >>)
NoResult == [raised |-> FALSE, answer |-> <<"-">>, citations |-> << >>]

\* -------------------------------------------------------------------- state
VARIABLES
  docs,            \* data/: file name -> document, NoDoc when there is none
  dataDir,         \* whether data/ exists
  metaFile,        \* article_metadata.json
  trackerFile,     \* .uploaded_files.json
  configFile,      \* store_config.json
  remoteStores,    \* the account's stores, in listing order
  remoteFiles,     \* <<store, file name>> of every upload the service accepted
  pc,              \* where main is: idle (not running), key, list, store, scan, upload
  existing_stores, \* main's local: the listing
  listResp,        \* the response list_stores got in this run ("" before it)
  store_id,        \* main's local
  new_files,       \* main's local: the delta, in glob order
  idx,             \* main's loop index (files of new_files already handled)
  uploaded_files,  \* main's local: the in-memory tracked set
  uploaded,        \* main's local counter
  failed,          \* main's local counter
  reqs,            \* the upload requests of this run: [file, store, status]
  skipped,         \* the files this run skipped as oversized
  outcome,         \* how the last run ended ("running" while it runs)
  runs,            \* runs started so far; also the clock of created_at
  edits,           \* changes made to data/ so far
  changes,         \* the kinds of change made to data/ since the last run started
  metaRead,        \* what load_existing_metadata met ("none" past the metadata step)
  prev,            \* summary of the run before the current one
  chat_history,    \* search_and_answer's argument
  query,           \* search_and_answer's argument
  contents,        \* the contents search_and_answer sends
  called,          \* whether search_and_answer has built its request
  response,        \* what the endpoint answers (NoResponse when none is modelled)
  result,          \* what search_and_answer returned (NoResult before it returns)
  filename,        \* get_article_info's argument, a raw citation title
  article_metadata,\* st.session_state.article_metadata
  info,            \* what get_article_info returned (NoInfo before it returns)
  md_file,         \* the name of the document an ingestion run recorded and uploaded
  apiKeyEnv,       \* whether GEMINI_API_KEY is set (environment or secrets)
  session_api_key, \* st.session_state.api_key: "unset", "none" or "key"
  session_store_config, \* st.session_state.store_config: "unset", "none" or "loaded"
  messages,        \* st.session_state.messages, the transcript
  apc,             \* where app.main is: idle, cut, rerun, respond, answered, prompt, prompted
  rendered,        \* whether the last script run drew the chat widgets
  calls,           \* for every call of search_and_answer the index of the message it answers
  cuts             \* for every answer thrown away by a stopped run the index of its message

syncVars == <<docs, dataDir, metaFile, trackerFile, configFile, remoteStores,
              remoteFiles, pc, existing_stores, listResp, store_id, new_files, idx,
              uploaded_files, uploaded, failed, reqs, skipped, outcome, runs, edits,
              changes, metaRead, prev>>
answerVars == <<response, result>>
infoVars == <<filename, article_metadata, info, md_file>>
sessionVars == <<apiKeyEnv, session_api_key, session_store_config, messages, apc,
                 rendered, calls, cuts>>
chatVars == <<chat_history, query, contents, called, answerVars, infoVars, sessionVars>>
vars == <<syncVars, chatVars>>

files == <<metaFile, trackerFile, configFile>>
remote == <<remoteStores, remoteFiles>>
locals == <<existing_stores, listResp, store_id, new_files, idx, uploaded_files,
            uploaded, failed, reqs, skipped>>
env == <<docs, dataDir, edits, changes>>

\* the documents the synchronizer is run on
SyncDocs ==
  { [hdr |-> "none", size |-> 1], [hdr |-> "none", size |-> MAX_FILE_MIB + 1],
    [hdr |-> "full", size |-> MAX_FILE_MIB] }

\* A run is completed when main reached the end of its delta computation: it
\* found nothing to upload, or uploaded and wrote the tracker.
Completed(how) == how \in {"nonew", "complete"}

\* What a run needs to know of the run before it:
\*   kind   "none" (no run yet), "crashed", "clean" (completed, no upload failed
\*          and no file was skipped), "unclean" (completed otherwise), "stopped"
\*          (main returned or raised before the delta)
\*   lost   the files a crashed run had uploaded successfully
\*   added  whether a document was added between that run and this one
NoPrev == [kind |-> "none", lost |-> {}, added |-> FALSE]

\* what load_existing_metadata meets: no file, a file it reads, a file that is
\* not valid JSON, or valid JSON it fails to read
MetaRead(file, readOk) ==
  IF file.st = "ok" THEN (IF readOk THEN "ok" ELSE "failed") ELSE file.st

\* the files of this run whose upload the service accepted
Succeeded(rs) == { rs[i].file : i \in { j \in 1..Len(rs) : ServiceAccepted(rs[j].status) } }

RunKind ==
  IF outcome = "none" THEN "none"
  ELSE IF outcome = "crashed" THEN "crashed"
  ELSE IF Completed(outcome)
       THEN (IF failed = 0 /\ skipped = {} THEN "clean" ELSE "unclean")
  ELSE "stopped"

\* no browser session: nothing in st.session_state, no script run
SessionIdle ==
  /\ apiKeyEnv = TRUE /\ session_api_key = "unset" /\ session_store_config = "unset"
  /\ messages = << >> /\ apc = "idle" /\ rendered = FALSE
  /\ calls = << >> /\ cuts = << >>

InfoIdle ==
  /\ filename = << >> /\ article_metadata = EmptyMapping /\ info = NoInfo
  /\ md_file = << >>
  /\ SessionIdle

AnswerIdle == response = NoResponse /\ result = NoResult /\ InfoIdle

ChatIdle ==
  /\ chat_history = << >> /\ query = "" /\ contents = << >> /\ called = FALSE
  /\ AnswerIdle

\* nothing persisted yet, main not running
SyncStart ==
  /\ dataDir = TRUE
  /\ trackerFile = AbsentTracker
  /\ configFile = AbsentConfig
  /\ remoteStores = <<OtherStore>>
  /\ remoteFiles = {}
  /\ pc = "idle"
  /\ existing_stores = << >>
  /\ listResp = ""
  /\ store_id = 0
  /\ new_files = << >>
  /\ idx = 0
  /\ uploaded_files = {}
  /\ uploaded = 0
  /\ failed = 0
  /\ reqs = << >>
  /\ skipped = {}
  /\ outcome = "none"
  /\ runs = 0
  /\ edits = 0
  /\ changes = {}
  /\ metaRead = "none"
  /\ prev = NoPrev

Init ==
  /\ docs \in [DocNames -> SyncDocs \cup {NoDoc}]
  /\ metaFile = AbsentMeta
  /\ SyncStart
  /\ ChatIdle

\* main returns or raises: the process ends
Exit(how) == pc' = "idle" /\ outcome' = how

\* main lines 216-222: generate_metadata, then save_metadata unless the mapping
\* is empty.  Starts a run, the n-th.
MainStart(n) ==
  /\ pc = "idle"
  /\ runs' = n
  /\ prev' = [kind  |-> RunKind,
              lost  |-> IF outcome = "crashed" THEN Succeeded(reqs) ELSE {},
              added |-> Completed(outcome) /\ "add" \in changes]
  /\ changes' = {}
  /\ existing_stores' = << >> /\ listResp' = "" /\ store_id' = 0
  /\ new_files' = << >> /\ idx' = 0 /\ uploaded_files' = {}
  /\ uploaded' = 0 /\ failed' = 0 /\ reqs' = << >> /\ skipped' = {}
  /\ \E readOk \in BOOLEAN :
       /\ metaRead' = MetaRead(metaFile, readOk)
       /\ LET g == generate_metadata(load_existing_metadata(metaFile, readOk), dataDir, docs)
              s == save_metadata(metaFile, g.metadata)
          IN  IF g.raised
              THEN metaFile' = metaFile /\ Exit("raised_metadata")
              ELSE IF DOMAIN g.metadata = {}
              THEN metaFile' = metaFile /\ pc' = "key" /\ outcome' = "running"
              ELSE /\ metaFile' = s.file
                   /\ IF s.raised THEN Exit("raised_save")
                      ELSE pc' = "key" /\ outcome' = "running"
  /\ UNCHANGED <<docs, dataDir, edits, trackerFile, configFile, remote, chatVars>>

GenerateMetadata == runs < MaxRuns /\ MainStart(runs + 1)

\* the same step in a run that is no longer counted
GenerateMetadataAgain == runs = MaxRuns /\ MainStart(runs)

\* main lines 225-227 and get_api_key: GEMINI_API_KEY is set
ApiKeyLoaded ==
  /\ pc = "key"
  /\ pc' = "list"
  /\ metaRead' = "none"
  /\ UNCHANGED <<env, files, remote, locals, outcome, runs, prev, chatVars>>

\* a return that writes the upload tracker on its way out
ApiKeyMissing_SavesTracker ==
  /\ pc = "key"
  /\ Exit("nokey")
  /\ metaRead' = "none"
  /\ trackerFile' = save_uploaded_files(load_uploaded_files(trackerFile))
  /\ UNCHANGED <<env, metaFile, configFile, remote, locals, runs, prev, chatVars>>

\* main lines 228-231 and get_api_key: GEMINI_API_KEY is unset, main returns
ApiKeyMissing ==
  /\ pc = "key"
  /\ Exit("nokey")
  /\ metaRead' = "none"
  /\ UNCHANGED <<env, files, remote, locals, runs, prev, chatVars>>

\* main line 236: list_stores; a request that raises ends the run
ListStores ==
  /\ pc = "list"
  /\ \E resp \in ListResponses :
       /\ listResp' = resp
       /\ IF resp = "raise"
          THEN existing_stores' = existing_stores /\ Exit("raised_list")
          ELSE /\ existing_stores' = list_stores(resp, remoteStores)
               /\ pc' = "store" /\ outcome' = outcome
  /\ UNCHANGED <<env, files, remote, store_id, new_files, idx, uploaded_files,
                 uploaded, failed, reqs, skipped, runs, metaRead, prev, chatVars>>

\* main lines 241-243: a listed store carries the configured name
ReuseStore ==
  /\ pc = "store"
  /\ InExistingMap(existing_stores, STORE_NAME)
  /\ store_id' = ExistingMap(existing_stores, STORE_NAME)
  /\ pc' = "scan"
  /\ UNCHANGED <<env, files, remote, existing_stores, listResp, new_files, idx,
                 uploaded_files, uploaded, failed, reqs, skipped, outcome, runs, metaRead, prev,
                 chatVars>>

\* main lines 244-248 and create_store: create a store and write StoreConfig;
\* a response other than 200 raises.  The account holds MaxRuns + 1 stores at
\* most (one more than a run each can have created).
CreateStore ==
  /\ pc = "store"
  /\ ~InExistingMap(existing_stores, STORE_NAME)
  /\ Len(remoteStores) <= MaxRuns
  /\ \E resp \in CreateResponses :
       IF resp = "200"
       THEN LET sid == Len(remoteStores) + 1
            IN  /\ remoteStores' = Append(remoteStores, [name |-> sid, displayName |-> STORE_NAME])
                /\ store_id' = sid
                /\ configFile' = save_config(sid, STORE_NAME, runs)
                /\ pc' = "scan" /\ outcome' = outcome
       ELSE /\ UNCHANGED <<remoteStores, store_id, configFile>>
            /\ Exit("raised_create")
  /\ UNCHANGED <<env, metaFile, trackerFile, remoteFiles, existing_stores, listResp,
                 new_files, idx, uploaded_files, uploaded, failed, reqs, skipped, runs,
                 metaRead, prev, chatVars>>

\* main lines 254-265: the delta of documents not yet tracked
ScanNewFiles ==
  /\ pc = "scan"
  /\ IF ~dataDir
     THEN /\ UNCHANGED <<uploaded_files, new_files>>
          /\ Exit("nodir")
     ELSE /\ uploaded_files' = load_uploaded_files(trackerFile)
          /\ new_files' \in Orders(NewFileSet(MdFiles(docs), load_uploaded_files(trackerFile)))
          /\ IF new_files' = << >> THEN Exit("nonew")
             ELSE pc' = "upload" /\ outcome' = outcome
  /\ UNCHANGED <<env, files, remote, existing_stores, listResp, store_id, idx,
                 uploaded, failed, reqs, skipped, runs, metaRead, prev, chatVars>>

\* main lines 273-277: an oversized file is skipped
SkipOversized ==
  /\ pc = "upload" /\ idx < Len(new_files)
  /\ Oversized(docs[new_files[idx + 1]])
  /\ skipped' = skipped \cup {new_files[idx + 1]}
  /\ idx' = idx + 1
  /\ UNCHANGED <<env, files, remote, pc, existing_stores, listResp, store_id, new_files,
                 uploaded_files, uploaded, failed, reqs, outcome, runs, metaRead, prev,
                 chatVars>>

\* an upload step that also writes the tracker after every success
UploadFile_SavePerFile ==
  /\ pc = "upload" /\ idx < Len(new_files)
  /\ ~Oversized(docs[new_files[idx + 1]])
  /\ \E status \in UploadResponses :
       LET f == new_files[idx + 1]
           ok == UploadOk(status)
       IN  /\ reqs' = Append(reqs, [file |-> f, store |-> store_id, status |-> status])
           /\ remoteFiles' = IF ServiceAccepted(status)
                             THEN remoteFiles \cup {<<store_id, f>>} ELSE remoteFiles
           /\ uploaded_files' = IF ok THEN uploaded_files \cup {f} ELSE uploaded_files
           /\ trackerFile' = IF ok THEN save_uploaded_files(uploaded_files \cup {f})
                             ELSE trackerFile
           /\ uploaded' = IF ok THEN uploaded + 1 ELSE uploaded
           /\ failed' = IF ok THEN failed ELSE failed + 1
  /\ idx' = idx + 1
  /\ UNCHANGED <<env, metaFile, configFile, remoteStores, pc, existing_stores, listResp,
                 store_id, new_files, skipped, outcome, runs, metaRead, prev, chatVars>>

\* main lines 279-288 and upload_file: one upload request and its tally
UploadFile ==
  /\ pc = "upload" /\ idx < Len(new_files)
  /\ ~Oversized(docs[new_files[idx + 1]])
  /\ \E status \in UploadResponses :
       LET f == new_files[idx + 1]
           ok == UploadOk(status)
       IN  /\ reqs' = Append(reqs, [file |-> f, store |-> store_id, status |-> status])
           /\ remoteFiles' = IF ServiceAccepted(status)
                             THEN remoteFiles \cup {<<store_id, f>>} ELSE remoteFiles
           /\ uploaded_files' = IF ok THEN uploaded_files \cup {f} ELSE uploaded_files
           /\ uploaded' = IF ok THEN uploaded + 1 ELSE uploaded
           /\ failed' = IF ok THEN failed ELSE failed + 1
  /\ idx' = idx + 1
  /\ UNCHANGED <<env, files, remoteStores, pc, existing_stores, listResp, store_id,
                 new_files, skipped, outcome, runs, metaRead, prev, chatVars>>

\* main lines 290-299: after the loop the tracker is written, once
SaveTracker ==
  /\ pc = "upload" /\ idx = Len(new_files)
  /\ trackerFile' = save_uploaded_files(uploaded_files)
  /\ Exit("complete")
  /\ UNCHANGED <<env, metaFile, configFile, remote, locals, runs, metaRead, prev, chatVars>>

\* the process is killed inside the upload loop (lines 273-288)
Crash ==
  /\ pc = "upload"
  /\ Exit("crashed")
  /\ UNCHANGED <<env, files, remote, locals, runs, metaRead, prev, chatVars>>

\* ------------------------------------------ the document directory, between runs
AddDocFrom(pool) ==
  /\ pc = "idle" /\ edits < MaxEdits
  /\ \E n \in DocNames, d \in pool :
       /\ docs[n] = NoDoc
       /\ docs' = [docs EXCEPT ![n] = d]
  /\ dataDir' = TRUE /\ changes' = changes \cup {"add"} /\ edits' = edits + 1
  /\ UNCHANGED <<files, remote, pc, locals, outcome, runs, metaRead, prev, chatVars>>

ChangeDocFrom(pool) ==
  /\ pc = "idle" /\ edits < MaxEdits
  /\ \E n \in DocNames, d \in pool :
       /\ docs[n] # NoDoc /\ docs[n] # d
       /\ docs' = [docs EXCEPT ![n] = d]
  /\ changes' = changes \cup {"change"} /\ edits' = edits + 1
  /\ UNCHANGED <<dataDir, files, remote, pc, locals, outcome, runs, metaRead, prev,
                 chatVars>>

RemoveDoc ==
  /\ pc = "idle" /\ edits < MaxEdits
  /\ \E n \in DocNames :
       /\ docs[n] # NoDoc
       /\ docs' = [docs EXCEPT ![n] = NoDoc]
  /\ changes' = changes \cup {"remove"} /\ edits' = edits + 1
  /\ UNCHANGED <<dataDir, files, remote, pc, locals, outcome, runs, metaRead, prev,
                 chatVars>>

RemoveDataDir ==
  /\ pc = "idle" /\ edits < MaxEdits /\ dataDir
  /\ docs' = [n \in DocNames |-> NoDoc]
  /\ dataDir' = FALSE
  /\ changes' = changes \cup {"remove"} /\ edits' = edits + 1
  /\ UNCHANGED <<files, remote, pc, locals, outcome, runs, metaRead, prev, chatVars>>

AddDoc == AddDocFrom(SyncDocs)
ChangeDoc == ChangeDocFrom(SyncDocs)

Next ==
  \/ GenerateMetadata \/ ApiKeyLoaded \/ ApiKeyMissing \/ ListStores \/ ReuseStore \/ CreateStore
  \/ ScanNewFiles \/ SkipOversized \/ UploadFile \/ SaveTracker \/ Crash
  \/ AddDoc \/ ChangeDoc \/ RemoveDoc \/ RemoveDataDir

Spec == Init /\ [][Next]_vars

\* --------------------------------------------- the synchronizer run for ever
\* the steps main takes by itself once it has been started
MainStep ==
  \/ ApiKeyLoaded \/ ListStores \/ ReuseStore \/ CreateStore
  \/ ScanNewFiles \/ SkipOversized \/ UploadFile \/ SaveTracker

\* data/ holds small documents at first; larger ones may be added
InitLive ==
  /\ docs \in [DocNames -> {[hdr |-> "none", size |-> 1], NoDoc}]
  /\ metaFile = AbsentMeta
  /\ SyncStart
  /\ ChatIdle

NextLive ==
  \/ GenerateMetadata \/ GenerateMetadataAgain \/ MainStep \/ Crash \/ AddDoc

\* main is a sequential script: started, it goes on until it returns, raises
\* or is killed
SpecLive == InitLive /\ [][NextLive]_vars /\ WF_vars(MainStep)

\* ------------------------------------------- search_and_answer on its own
InitChat ==
  /\ docs = [n \in DocNames |-> NoDoc]
  /\ metaFile = AbsentMeta
  /\ SyncStart
  /\ chat_history \in Histories
  /\ query \in Queries
  /\ contents = << >>
  /\ called = FALSE
  /\ AnswerIdle

\* search_and_answer lines 79-111: build the request
SearchAndAnswer ==
  /\ ~called
  /\ contents' = BuildContents(chat_history, query)
  /\ called' = TRUE
  /\ UNCHANGED <<syncVars, chat_history, query, answerVars, infoVars, sessionVars>>

NextChat == SearchAndAnswer

SpecChat == InitChat /\ [][NextChat]_vars

\* ------------------------------- search_and_answer and the endpoint's response
InitAnswer ==
  /\ docs = [n \in DocNames |-> NoDoc]
  /\ metaFile = AbsentMeta
  /\ SyncStart
  /\ chat_history = << >> /\ query = "q" /\ contents = << >> /\ called = FALSE
  /\ response \in Responses
  /\ result = NoResult
  /\ InfoIdle

\* search_and_answer lines 79-154: the request is built, the endpoint called
\* and its outcome turned into the returned pair
ReceiveResponse ==
  /\ response # NoResponse /\ result = NoResult
  /\ contents' = BuildContents(chat_history, query)
  /\ called' = TRUE
  /\ result' = search_and_answer(response)
  /\ UNCHANGED <<syncVars, chat_history, query, response, infoVars, sessionVars>>

NextAnswer == ReceiveResponse

SpecAnswer == InitAnswer /\ [][NextAnswer]_vars

\* ------------------------------------------------ get_article_info on its own
InitInfo ==
  /\ docs = [n \in DocNames |-> NoDoc]
  /\ metaFile = AbsentMeta
  /\ SyncStart
  /\ chat_history = << >> /\ query = "" /\ contents = << >> /\ called = FALSE
  /\ response = NoResponse /\ result = NoResult
  /\ filename \in RawTitles
  /\ article_metadata \in ArticleMetadatas
  /\ info = NoInfo
  /\ md_file = << >>
  /\ SessionIdle

\* render_citations line 233: the lookup of one citation
GetArticleInfo ==
  /\ info = NoInfo
  /\ info' = get_article_info(filename, article_metadata)
  /\ UNCHANGED <<syncVars, chat_history, query, contents, called, answerVars,
                 filename, article_metadata, md_file, sessionVars>>

NextInfo == GetArticleInfo

SpecInfo == InitInfo /\ [][NextInfo]_vars

\* --------------------------- from ingestion to citation: one document's name
\* the names of documents in data/: a stem that does not begin with a dot,
\* put together from pieces or longer than a display name may be, then ".md"
LONG_STEM == [i \in 1..(DISPLAY_NAME_MAX + 1) |-> "a"]
MdFileNames ==
  { st \o MD_SUFFIX : st \in { x \in StringsOf(MaxParts) : x # << >> /\ x[1] # "." } }
    \cup { LONG_STEM \o MD_SUFFIX }
\* the other document of the directory, if there is one
OtherFileNames ==
  { st \o MD_SUFFIX : st \in { x \in StringsOf(MaxKeyParts) : x # << >> /\ x[1] # "." } }

\* upload_file line 178: the display name the document gets in the store
DisplayName(name) == FirstN(Stem(name), DISPLAY_NAME_MAX)

\* generate_metadata lines 105-125 over documents without header block
MetadataOf(names) == [k \in { Stem(n) : n \in names } |-> MetadataRecord(k, EmptyDict)]

InitRound ==
  /\ docs = [n \in DocNames |-> NoDoc]
  /\ metaFile = AbsentMeta
  /\ SyncStart
  /\ chat_history = << >> /\ query = "" /\ contents = << >> /\ called = FALSE
  /\ response = NoResponse /\ result = NoResult
  /\ filename = << >> /\ article_metadata = EmptyMapping /\ info = NoInfo
  /\ md_file \in MdFileNames
  /\ SessionIdle

\* one ingestion run over data/ holding md_file and perhaps another document:
\* both are recorded in the mapping the interface loads, md_file is uploaded
\* and the store hands its display name back as the title of a citation
IngestDocument ==
  /\ md_file # << >> /\ article_metadata = EmptyMapping /\ info = NoInfo
  /\ \E others \in {{}} \cup { {o} : o \in OtherFileNames } :
       article_metadata' = MetadataOf({md_file} \cup others)
  /\ filename' = DisplayName(md_file)
  /\ UNCHANGED <<syncVars, chat_history, query, contents, called, answerVars, info,
                 md_file, sessionVars>>

\* render_citations line 233 for that citation
ResolveCitation == article_metadata # EmptyMapping /\ GetArticleInfo

NextRound == IngestDocument \/ ResolveCitation

SpecRound == InitRound /\ [][NextRound]_vars

\* --------------------------------- the metadata store: main without a credential
\* the documents the metadata merge is run on: every kind of header
MetaDocs == { [hdr |-> h, size |-> 1] : h \in HeaderKinds }

\* a record somebody enriched by hand in article_metadata.json
ENRICHED == [title |-> StrVal(<<"E">>), url |-> StrVal(SOURCE_1), author |-> StrVal(AUTHOR_2)]
\* the key of a document that is no longer in data/
GONE_KEY == <<"g">>

StartMetaFiles ==
  { AbsentMeta,
    [st |-> "ok", map |-> [k \in {Stem(<<"a">> \o MD_SUFFIX)} |-> ENRICHED]],
    [st |-> "ok", map |-> [k \in {GONE_KEY} |-> ENRICHED]] }

InitMeta ==
  /\ docs \in [DocNames -> MetaDocs \cup {NoDoc}]
  /\ metaFile \in StartMetaFiles
  /\ SyncStart
  /\ ChatIdle

AddMetaDoc == AddDocFrom(MetaDocs)
ChangeMetaDoc == ChangeDocFrom(MetaDocs)

NextMeta ==
  \/ GenerateMetadata \/ ApiKeyMissing
  \/ AddMetaDoc \/ ChangeMetaDoc \/ RemoveDoc \/ RemoveDataDir

SpecMeta == InitMeta /\ [][NextMeta]_vars

\* ------------------------------------------------- the chat session, app.main
\* the example question of render_welcome and what a user types
EXAMPLES == {"x"}
Prompts == {"x", "y"}
\* the answer search_and_answer returns
REPLY == "r"
\* what starts a script run: a plain rerun, a click on an example question, a
\* text sent through the chat input
Events == {[kind |-> "none", text |-> ""]}
            \cup { [kind |-> "example", text |-> q] : q \in EXAMPLES }
            \cup { [kind |-> "prompt", text |-> p] : p \in Prompts }

Message(role, content) == [role |-> role, content |-> content]

\* a store_config.json a synchronizer run wrote earlier
WrittenConfig == save_config(2, STORE_NAME, 1)

\* init_session_state lines 164-167: a value is loaded once per session
CachedApiKey(cached, key_set) ==
  IF cached = "unset" THEN (IF key_set THEN "key" ELSE "none") ELSE cached
CachedStoreConfig(cached, file) ==
  IF cached = "unset" THEN (IF file.exists THEN "loaded" ELSE "none") ELSE cached

\* a check that looks at the credential alone
Blocked_KeyOnly(api_key, store_config) == api_key # "key"

\* main lines 266-274: st.stop() without credential or without store config
Blocked(api_key, store_config) == api_key # "key" \/ store_config # "loaded"

CountRole(msgs, role) == Cardinality({ i \in 1..Len(msgs) : msgs[i].role = role })

\* a test that never finds a message to answer
needs_response_Never(msgs) == FALSE

\* main lines 292-296
needs_response(msgs) ==
  /\ msgs # << >>
  /\ msgs[Len(msgs)].role = "user"
  /\ CountRole(msgs, "assistant") < CountRole(msgs, "user")

\* a call that hands over the whole transcript
HistoryArg_Whole(msgs) == msgs

\* main lines 306 and 336: st.session_state.messages[:-1]
HistoryArg(msgs) == SubSeq(msgs, 1, Len(msgs) - 1)

InitApp ==
  /\ docs = [n \in DocNames |-> NoDoc]
  /\ metaFile = AbsentMeta
  /\ dataDir = TRUE
  /\ trackerFile = AbsentTracker
  /\ configFile \in {AbsentConfig, WrittenConfig}
  /\ remoteStores = <<OtherStore>>
  /\ remoteFiles = {}
  /\ pc = "idle"
  /\ existing_stores = << >>
  /\ listResp = ""
  /\ store_id = 0
  /\ new_files = << >>
  /\ idx = 0
  /\ uploaded_files = {}
  /\ uploaded = 0
  /\ failed = 0
  /\ reqs = << >>
  /\ skipped = {}
  /\ outcome = "none"
  /\ runs = 0
  /\ edits = 0
  /\ changes = {}
  /\ metaRead = "none"
  /\ prev = NoPrev
  /\ chat_history = << >> /\ query = "" /\ contents = << >> /\ called = FALSE
  /\ response = NoResponse /\ result = NoResult
  /\ filename = << >> /\ article_metadata = EmptyMapping /\ info = NoInfo
  /\ md_file = << >>
  /\ apiKeyEnv \in BOOLEAN
  /\ session_api_key = "unset" /\ session_store_config = "unset"
  /\ messages = << >> /\ apc = "idle" /\ rendered = FALSE
  /\ calls = << >> /\ cuts = << >>

\* main lines 253-296 and 322-324: one script run from its start to the point
\* where it stops, ends, or is about to answer.  Before the chat widgets were
\* drawn once there is nothing to click, only the page load and plain reruns.
ScriptRun ==
  /\ apc \in {"idle", "cut", "rerun"}
  /\ \E ev \in Events :
       /\ ~rendered => ev.kind = "none"
       /\ ev.kind # "none" => Len(messages) + 2 <= MaxMsgs
       /\ LET api_key == CachedApiKey(session_api_key, apiKeyEnv)
              store_config == CachedStoreConfig(session_store_config, configFile)
              example_query == ev.kind = "example" /\ messages = << >>
              shown == IF example_query
                       THEN Append(messages, Message("user", ev.text)) ELSE messages
          IN  /\ session_api_key' = api_key
              /\ session_store_config' = store_config
              /\ IF Blocked(api_key, store_config)
                 THEN messages' = messages /\ apc' = "idle" /\ rendered' = FALSE
                 ELSE /\ rendered' = TRUE
                      /\ IF needs_response(shown)
                         THEN messages' = shown /\ apc' = "respond"
                         ELSE IF ev.kind = "prompt"
                         THEN /\ messages' = Append(shown, Message("user", ev.text))
                              /\ apc' = "prompt"
                         ELSE messages' = shown /\ apc' = "idle"
  /\ UNCHANGED <<syncVars, chat_history, query, contents, called, answerVars, infoVars,
                 apiKeyEnv, calls, cuts>>

\* main lines 299-307 and 331-337: search_and_answer is called for the last
\* message of the transcript
CallSearchAndAnswer ==
  /\ apc \in {"respond", "prompt"}
  /\ query' = messages[Len(messages)].content
  /\ chat_history' = HistoryArg(messages)
  /\ contents' = BuildContents(HistoryArg(messages), messages[Len(messages)].content)
  /\ called' = TRUE
  /\ calls' = Append(calls, Len(messages))
  /\ apc' = IF apc = "respond" THEN "answered" ELSE "prompted"
  /\ UNCHANGED <<syncVars, answerVars, infoVars, apiKeyEnv, session_api_key,
                 session_store_config, messages, rendered, cuts>>

\* main lines 309-319 and 339-349: the answer is appended; the answering block
\* of lines 298-319 then calls st.rerun()
AppendAnswer ==
  /\ apc \in {"answered", "prompted"}
  /\ messages' = Append(messages, Message("assistant", REPLY))
  /\ apc' = IF apc = "answered" THEN "rerun" ELSE "idle"
  /\ UNCHANGED <<syncVars, chat_history, query, contents, called, answerVars, infoVars,
                 apiKeyEnv, session_api_key, session_store_config, rendered, calls, cuts>>

\* Streamlit stops a running script at its next st.* call when a new widget
\* event arrives: before the call (st.chat_message, st.spinner) or between the
\* call and the append (st.markdown(answer)).  st.session_state keeps what the
\* run has appended.
Interrupt ==
  /\ apc \in {"respond", "prompt", "answered", "prompted"}
  /\ Len(cuts) < MaxCuts
  /\ cuts' = IF apc \in {"answered", "prompted"} THEN Append(cuts, Len(messages)) ELSE cuts
  /\ apc' = "cut"
  /\ UNCHANGED <<syncVars, chat_history, query, contents, called, answerVars, infoVars,
                 apiKeyEnv, session_api_key, session_store_config, messages, rendered, calls>>

NextApp == ScriptRun \/ CallSearchAndAnswer \/ AppendAnswer \/ Interrupt

SpecApp == InitApp /\ [][NextApp]_vars

\* ------------------------------------------------------------------ claims
\* the file names the persisted upload tracker holds
Tracked(file) == IF file.exists THEN file.files ELSE {}

\* the keys of the persisted article-metadata mapping
MetaKeys(file) == IF file.st = "ok" THEN DOMAIN file.map ELSE {}

\* C1: once a key is present in the persisted article-metadata mapping, no
\* later step of any ingestion run changes or removes its record, whatever
\* condition the file is in when it is loaded; runs only add missing keys.
C1_KeysNeverOverwritten ==
  [][ \A k \in MetaKeys(metaFile) :
        k \in MetaKeys(metaFile') /\ metaFile'.map[k] = metaFile.map[k] ]_vars

C2_CrashReuploadsOnlyInFlight ==
  (prev.kind = "crashed" /\ pc = "upload") => prev.lost \cap Range(new_files) = {}

\* C2 amended: the tracker is written only after the loop, so after a run was
\* interrupted inside the upload loop every file whose upload had completed
\* in that run and that is still in data/ is in the next run's new_files
\* again; only files tracked before the interrupted run are left out.
C2_CrashReuploadsWholeBatch ==
  (prev.kind = "crashed" /\ (pc = "upload" \/ (outcome = "nonew" /\ changes = {})))
    => /\ (prev.lost \cap MdFiles(docs)) \subseteq Range(new_files)
       /\ Range(new_files) \cap Tracked(trackerFile) = {}

\* C2's case: the run after a crash sends again a file the crashed run had
\* already uploaded
C2_Witness ==
  /\ prev.kind = "crashed" /\ pc = "upload"
  /\ \E i \in 1..Len(reqs) : reqs[i].file \in prev.lost

\* C3 as claimed: when two runs in a row complete and no document was added
\* between them, the second computes an empty delta and sends no upload.
C3_SecondRunUploadsNothing ==
  (prev.kind \in {"clean", "unclean"} /\ ~prev.added /\ Completed(outcome))
    => (new_files = << >> /\ reqs = << >>)

\* C3 amended: when a run completed with no failed upload and no oversized
\* file skipped, no document was added afterwards, and the next run gets as
\* far as its delta, that delta is empty and the run sends no upload.
C3_SecondRunAfterCleanRun ==
  (prev.kind = "clean" /\ ~prev.added /\ (pc = "upload" \/ Completed(outcome)))
    => (new_files = << >> /\ reqs = << >>)

\* C3's case: the first run uploaded, the second found every document tracked
C3_Witness ==
  /\ runs = 2 /\ prev.kind = "clean" /\ ~prev.added /\ outcome = "nonew"
  /\ changes = {} /\ MdFiles(docs) # {}
  /\ MdFiles(docs) \subseteq Tracked(trackerFile)

\* C5: the persisted uploaded-files set only grows: no step removes a file
\* name from it.
C5_TrackerMonotonic ==
  [][ /\ Tracked(trackerFile) \subseteq Tracked(trackerFile')
      /\ trackerFile.exists => trackerFile'.exists ]_vars

\* C5's case: a second run wrote the tracker while it held a file that is no
\* longer in data/
C5_Witness ==
  /\ runs = 2 /\ outcome = "complete" /\ changes = {}
  /\ \E f \in trackerFile.files : docs[f] = NoDoc

\* the upload requests of this run for file f
RequestsFor(f) == { i \in 1..Len(reqs) : reqs[i].file = f }

\* C6: upload is continue-on-error: a failed upload never ends the run; when
\* the loop is over every new file of at most 10 MiB was attempted exactly
\* once, failed counts the requests not answered 200 or 202, and the tracker
\* written is the set tracked before plus exactly the files answered 200 or 202.
C6_ContinueOnError ==
  [][ /\ (pc = "upload" /\ pc' = "idle") => outcome' \in {"complete", "crashed"}
      /\ (pc = "upload" /\ outcome' = "complete") =>
           /\ \A f \in Range(new_files) :
                docs[f].size <= 10 => Cardinality(RequestsFor(f)) = 1
           /\ failed = Cardinality({ i \in 1..Len(reqs) : reqs[i].status \notin {200, 202} })
           /\ uploaded = Cardinality({ i \in 1..Len(reqs) : reqs[i].status \in {200, 202} })
           /\ trackerFile'.exists
           /\ trackerFile'.files =
                Tracked(trackerFile)
                  \cup { reqs[i].file : i \in { j \in 1..Len(reqs) : reqs[j].status \in {200, 202} } }
    ]_vars

\* C6's case: a run whose first upload failed went on, uploaded the next file
\* and wrote the tracker
C6_Witness ==
  /\ pc = "idle" /\ outcome = "complete" /\ Len(reqs) = 2
  /\ reqs[1].status \notin {200, 202} /\ reqs[2].status \in {200, 202}
  /\ trackerFile.files = {reqs[2].file}

\* C7: no upload request is sent for a file above 10 MiB and the file is not
\* added to the tracked set; skipping does not end the run: every other new
\* file is attempted and the tracker is written.
C7_OversizedSkipped ==
  [][ /\ pc' = "upload" => \A i \in 1..Len(reqs') : docs'[reqs'[i].file].size <= 10
      /\ (pc = "upload" /\ pc' = "idle") => outcome' \in {"complete", "crashed"}
      /\ (pc = "upload" /\ outcome' = "complete") =>
           /\ trackerFile'.exists
           /\ \A f \in Range(new_files) :
                IF docs[f].size > 10
                THEN RequestsFor(f) = {} /\ f \notin trackerFile'.files
                ELSE RequestsFor(f) # {}
    ]_vars

\* C7's case: the first new file was oversized, the second was uploaded and
\* the tracker written without the oversized one
C7_Witness ==
  /\ pc = "idle" /\ outcome = "complete" /\ changes = {} /\ Len(new_files) = 2
  /\ docs[new_files[1]].size > 10
  /\ trackerFile.files = {new_files[2]}

\* C8: a failing store listing or store creation is fatal: in a run whose
\* list_stores got a failing response no store is created, no upload is sent,
\* and StoreConfig and the upload tracker stay as they are.
C8_BootstrapFailureIsFatal ==
  [][ (pc # "idle" /\ listResp \in {"non200", "raise"})
        => /\ remoteStores' = remoteStores
           /\ configFile' = configFile
           /\ trackerFile' = trackerFile
           /\ reqs' = << >> ]_vars

\* the identifiers of the listed stores that carry the configured name
ListedIds == { existing_stores[i].name :
                 i \in { j \in 1..Len(existing_stores) :
                           existing_stores[j].displayName = "girogi-ai-archive" } }

\* C9: StoreConfig is written only when a store is created.  A run whose
\* listing holds a store of the configured name takes that store's identifier,
\* creates nothing and leaves StoreConfig alone; a run that creates a store
\* writes StoreConfig with the identifier the creation returned; every upload
\* of a run goes to the identifier the run chose.
C9_ConfigOnlyOnCreation ==
  [][ /\ configFile' # configFile => Len(remoteStores') = Len(remoteStores) + 1
      /\ (pc = "store" /\ pc' = "scan") =>
           IF ListedIds # {}
           THEN /\ store_id' \in ListedIds
                /\ remoteStores' = remoteStores
                /\ configFile' = configFile
           ELSE /\ Len(remoteStores') = Len(remoteStores) + 1
                /\ store_id' = remoteStores'[Len(remoteStores')].name
                /\ remoteStores'[Len(remoteStores')].displayName = "girogi-ai-archive"
                /\ configFile'.exists
                /\ configFile'.corpus_name = store_id'
                /\ configFile'.store_name = "girogi-ai-archive"
      /\ \A i \in 1..Len(reqs') : reqs'[i].store = store_id'
    ]_vars

\* C9's case: the second run found the store the first had created, reused
\* it without touching StoreConfig and uploaded to it
C9_Witness ==
  /\ runs = 2 /\ listResp = "200" /\ Len(reqs) >= 1
  /\ configFile.exists /\ configFile.created_at = 1
  /\ store_id = configFile.corpus_name
  /\ Len(remoteStores) = 2

\* C10: the contents search_and_answer sends are the last min(6, |H|) messages
\* of the history H in their order, user as "user" and assistant as "model",
\* then the query as one last user turn: at most 7 turns, ending with q.
C10_BoundedContext ==
  called =>
    LET n == IF Len(chat_history) < 6 THEN Len(chat_history) ELSE 6
        off == Len(chat_history) - n
    IN  /\ Len(contents) = n + 1
        /\ Len(contents) <= 7
        /\ contents[n + 1] = [role |-> "user", parts |-> <<[text |-> query]>>]
        /\ \A i \in 1..n :
             /\ contents[i].parts = <<[text |-> chat_history[off + i].content]>>
             /\ chat_history[off + i].role = "user" => contents[i].role = "user"
             /\ chat_history[off + i].role = "assistant" => contents[i].role = "model"

\* C10's case: a history longer than the window, its dropped first message
\* unlike the first one kept
C10_Witness ==
  /\ called /\ Len(chat_history) = 7 /\ Len(contents) = 7
  /\ chat_history[1] # chat_history[2]
  /\ contents[1].role = "model"

\* the title line 141 reads from chunk i of the response
TitleAt(i) ==
  IF response.chunks[i].has_title THEN response.chunks[i].title ELSE "Unknown"

\* the chunks that carry a retrieved context and whose title no earlier such
\* chunk has
FirstOccurrences ==
  { i \in 1..Len(response.chunks) :
      /\ response.chunks[i].ctx = "dict"
      /\ \A j \in 1..(i - 1) :
           response.chunks[j].ctx = "dict" => TitleAt(j) # TitleAt(i) }

\* C11: for the grounding chunks of a successful response the citations are
\* one entry per distinct title among the chunks with a retrieved context
\* ("Unknown" when the title is absent), in order of first occurrence, cut to
\* the first 5; no title twice, nothing from chunks without a context.
C11_CitationsDedupedAndCapped ==
  (result # NoResult /\ response.kind = "ok"
     /\ \A i \in 1..Len(response.chunks) : response.chunks[i].ctx # "str")
    => LET n == IF Cardinality(FirstOccurrences) < 5 THEN Cardinality(FirstOccurrences) ELSE 5
       IN  /\ ~result.raised
           /\ Len(result.citations) = n
           /\ \A k \in 1..n :
                \E i \in FirstOccurrences :
                  /\ Cardinality({ j \in FirstOccurrences : j <= i }) = k
                  /\ result.citations[k].title = TitleAt(i)
           /\ \A k, l \in 1..n :
                k # l => result.citations[k].title # result.citations[l].title

\* C11's case: six chunks with six distinct titles, one of them absent: five
\* citations come back, the sixth title is cut
C11_Witness ==
  /\ result # NoResult /\ response.kind = "ok"
  /\ Len(response.chunks) = 6 /\ Cardinality(FirstOccurrences) = 6
  /\ \E i \in 1..6 : ~response.chunks[i].has_title
  /\ Len(result.citations) = 5
  /\ result.citations[5].title = TitleAt(5)

\* C12: search_and_answer never raises: whatever the endpoint call gives, it
\* returns a string and a citation list; the list is empty on every failure,
\* the string is the fixed apology on a timeout and holds the status code on
\* a status other than 200.
C12_NeverRaises ==
  result # NoResult =>
    /\ ~result.raised
    /\ response.kind # "ok" => result.citations = << >>
    /\ (response.kind = "ok" /\ \E i \in 1..Len(response.chunks) : response.chunks[i].ctx = "str")
         => result.citations = << >>
    /\ response.kind = "timeout" => result.answer = <<"timeout-apology">>
    /\ response.kind = "status" =>
         \E i \in 1..Len(result.answer) : result.answer[i] = response.code
    /\ response.kind \in {"error", "badjson", "null"} => result.answer[1] = "error: "

\* C12's case: a 200 response whose second chunk is malformed, after a first
\* chunk that had already given a citation
C12_Witness ==
  /\ result # NoResult /\ response.kind = "ok" /\ Len(response.chunks) = 2
  /\ response.chunks[1].ctx = "dict" /\ response.chunks[2].ctx = "str"
  /\ ~result.raised /\ result.citations = << >>

\* t without a trailing ".md"
StripMdSuffix(t) ==
  IF Len(t) >= 3 /\ SubSeq(t, Len(t) - 2, Len(t)) = <<".", "m", "d">>
  THEN SubSeq(t, 1, Len(t) - 3) ELSE t

\* C13: get_article_info(t) looks up t without a trailing ".md", nothing else
\* of t changed; a hit returns that entry's title and url, a miss returns the
\* raw title t and a null url.
C13_StripsTrailingSuffixOnly ==
  info # NoInfo =>
    LET key == StripMdSuffix(filename)
    IN  IF key \in DOMAIN article_metadata
        THEN /\ info.title = article_metadata[key].title
             /\ info.url = article_metadata[key].url
        ELSE /\ info.title = [t |-> "str", v |-> filename]
             /\ info.url.t = "none"

\* the headers that are no well-formed structured header: none at all, text
\* YAML cannot load, an empty block, a block that is no mapping
Unstructured == {"none", "badyaml", "empty", "scalar"}

\* C14: a document whose header block is absent or malformed never aborts the
\* metadata generation: parse_frontmatter gives the empty record for it, and
\* generate_metadata returns with an entry for every document of data/.
C14_HeaderNeverAborts ==
  [][ (runs' = runs + 1 /\ dataDir)
        => /\ \A n \in MdFiles(docs) :
                docs[n].hdr \in Unstructured
                  => parse_frontmatter(docs[n]) = [isdict |-> TRUE, d |-> EmptyDict]
           /\ (\A n \in MdFiles(docs) : docs[n].hdr \in Unstructured)
                => /\ outcome' # "raised_metadata"
                   /\ \A n \in MdFiles(docs) : Stem(n) \in MetaKeys(metaFile') ]_vars

\* C15: with GEMINI_API_KEY unset main still generates the metadata and saves
\* a non-empty mapping, then returns: no list, create or upload request was
\* sent and neither StoreConfig nor the upload tracker was written.
C15_MissingKeyStopsAfterMetadata ==
  [][ /\ runs' = runs + 1 =>
           /\ trackerFile' = trackerFile /\ configFile' = configFile
           /\ remoteStores' = remoteStores /\ remoteFiles' = remoteFiles
      /\ (pc = "key" /\ outcome' = "nokey") =>
           /\ pc' = "idle"
           /\ \A n \in MdFiles(docs) : Stem(n) \in MetaKeys(metaFile)
           /\ metaFile' = metaFile
           /\ trackerFile' = trackerFile /\ configFile' = configFile
           /\ remoteStores' = remoteStores /\ remoteFiles' = remoteFiles
           /\ listResp' = "" /\ store_id' = 0 /\ reqs' = << >>
    ]_vars

\* C15's case: a first run without credential ended after saving the metadata
\* of two documents; no store, no StoreConfig, no tracker
C15_Witness ==
  /\ pc = "idle" /\ outcome = "nokey" /\ runs = 1
  /\ Cardinality(MetaKeys(metaFile)) = 2
  /\ ~trackerFile.exists /\ ~configFile.exists
  /\ Len(remoteStores) = 1 /\ remoteFiles = {}

\* the user messages of the transcript and the calls made for message i
UserIndexes == { i \in 1..Len(messages) : messages[i].role = "user" }
CallsFor(i) == Cardinality({ k \in 1..Len(calls) : calls[k] = i })
CutsFor(i) == Cardinality({ k \in 1..Len(cuts) : cuts[k] = i })
\* message i has its reply, in the transcript or in hand
Answered(i) == i < Len(messages) \/ (i = Len(messages) /\ apc \in {"answered", "prompted"})

\* C16 as claimed: every user message appended to the transcript gets exactly
\* one call of search_and_answer: never a second call for the same message,
\* and one call once its reply is there.
C16_ExactlyOneCall ==
  \A i \in UserIndexes :
    /\ CallsFor(i) <= 1
    /\ Answered(i) => CallsFor(i) = 1

\* C16 amended: every user message gets one call of search_and_answer before
\* its reply is appended, and one more call for every script run that was
\* stopped between the call and the append (the answer is thrown away and the
\* next run answers the pending message again); a run that ends leaves no
\* user message unanswered.  Without a stopped run: exactly one call.
C16_OneCallPerAnswerKept ==
  /\ \A i \in UserIndexes :
       CallsFor(i) = CutsFor(i) + (IF Answered(i) THEN 1 ELSE 0)
  /\ \A k \in 1..Len(calls) : calls[k] \in UserIndexes
  /\ apc \in {"idle", "rerun"} =>
       (messages = << >> \/ messages[Len(messages)].role = "assistant")

\* C16's case: the run that answered the first message was stopped after its
\* call; the next run called again and the reply is in the transcript
C16_Witness ==
  /\ apc = "idle" /\ Len(messages) >= 2 /\ cuts = <<1>>
  /\ CallsFor(1) = 2 /\ messages[2].role = "assistant"

\* C17: a session without credential or without store config is blocked: main
\* stops before any call of search_and_answer and the transcript stays as it
\* is (empty), in every script run.
C17_ConfigErrorsBlock ==
  (session_api_key # "unset"
     /\ (~apiKeyEnv \/ ~configFile.exists
           \/ session_api_key = "none" \/ session_store_config = "none"))
    => /\ messages = << >>
       /\ calls = << >> /\ ~called
       /\ apc = "idle"

\* C17's case: the credential is there, the store config is not; script runs
\* have taken place
C17_Witness ==
  /\ session_api_key = "key" /\ session_store_config = "none"
  /\ apc = "idle" /\ ~rendered /\ messages = << >>

\* C20: the transcript only grows by appends and alternates user, assistant,
\* ... from a user message on; when a script run has ended it ends with an
\* assistant message; the history of every call is the transcript without the
\* message being answered, so the request holds the query once, as its last turn.
C20_TranscriptAlternates ==
  [][ /\ Len(messages') >= Len(messages)
      /\ SubSeq(messages', 1, Len(messages)) = messages
      /\ \A i \in 1..Len(messages') :
           messages'[i].role = (IF i % 2 = 1 THEN "user" ELSE "assistant")
      /\ apc' \in {"idle", "rerun"} => Len(messages') % 2 = 0
      /\ calls' # calls =>
           LET n == Len(messages)
               k == IF n - 1 < 6 THEN n - 1 ELSE 6
           IN  /\ messages[n].role = "user"
               /\ query' = messages[n].content
               /\ Len(chat_history') = n - 1
               /\ \A i \in 1..(n - 1) : chat_history'[i] = messages[i]
               /\ Len(contents') = k + 1
               /\ contents'[k + 1] = [role |-> "user", parts |-> <<[text |-> query']>>]
               /\ \A i \in 1..k :
                    /\ contents'[i].parts = <<[text |-> messages[n - 1 - k + i].content]>>
                    /\ contents'[i].role =
                         (IF messages[n - 1 - k + i].role = "user" THEN "user" ELSE "model")
    ]_vars

\* C20's case: the fifth question of a session was answered: the history was
\* the eight messages before it, the request held the last six and the question
C20_Witness ==
  /\ apc = "idle" /\ Len(messages) = 10 /\ Len(chat_history) = 8 /\ Len(contents) = 7
  /\ messages[10].role = "assistant" /\ query = messages[9].content
  /\ contents[1].role = "user" /\ contents[6].role = "model"

\* C18: after any sequence of runs, also runs that create a store again
\* because the listing failed, every file name in the persisted tracker has
\* been uploaded to the store StoreConfig names and the current run uploads to.
C18_TrackedFilesAreInCurrentStore ==
  \A f \in Tracked(trackerFile) :
    /\ configFile.exists => <<configFile.corpus_name, f>> \in remoteFiles
    /\ pc \in {"scan", "upload"} => <<store_id, f>> \in remoteFiles

\* a run has ended that reached the end of main with no upload failed, and
\* data/ has not changed since it started
CleanRunEnded ==
  pc = "idle" /\ outcome \in {"nonew", "complete"} /\ failed = 0 /\ changes = {}

\* every document of data/ of at most 10 MiB is in the persisted tracker
SmallDocsTracked ==
  \A n \in DocNames :
    (docs[n].hdr # "absent" /\ docs[n].size <= 10) => n \in Tracked(trackerFile)

\* C19: a file whose upload failed is not tracked and is attempted again by
\* every later run that gets to the upload loop and through it; so when runs
\* keep completing with their uploads succeeding and data/ no longer changing,
\* eventually every document of at most 10 MiB is tracked, for good.
C19_FailedUploadsAreRetried ==
  /\ [][ /\ (Len(reqs') = Len(reqs) + 1 /\ reqs'[Len(reqs')].status \notin {200, 202})
              => reqs'[Len(reqs')].file \notin uploaded_files'
         /\ (pc = "scan" /\ pc' = "upload")
              => \A n \in DocNames :
                   (docs[n].hdr # "absent" /\ n \notin Tracked(trackerFile))
                     => \E i \in 1..Len(new_files') : new_files'[i] = n
         /\ (pc = "upload" /\ outcome' = "complete")
              => /\ \A i \in 1..Len(new_files) :
                      docs[new_files[i]].size <= 10 => RequestsFor(new_files[i]) # {}
                 /\ \A i \in 1..Len(reqs) :
                      reqs[i].status \notin {200, 202} => reqs[i].file \notin Tracked(trackerFile')
       ]_vars
  /\ ([]<>CleanRunEnded) => <>[]SmallDocsTracked

\* C19's case: the first run failed to upload a file, the second run sent it
\* again, this time with success, and tracked it
C19_Witness ==
  /\ pc = "idle" /\ outcome = "complete" /\ runs = 2 /\ prev.kind = "unclean"
  /\ failed = 0 /\ changes = {} /\ Len(reqs) = 1
  /\ reqs[1].file \in Tracked(trackerFile)
  /\ SmallDocsTracked

\* C21: ingestion and citation resolution round-trip: for a document one run
\* recorded (key = the file name without ".md") and uploaded (display name =
\* that stem cut to 100 characters), get_article_info of the display name
\* returns the document's own entry, not the fallback nor another entry.
C21_CitationResolvesToOwnEntry ==
  (md_file # << >> /\ info # NoInfo)
    => /\ StripMdSuffix(md_file) \in DOMAIN article_metadata
       /\ info = article_metadata[StripMdSuffix(md_file)]

====
